---- MODULE Spec2Model ----
(***************************************************************************)
(* The UNHCR demographics MCP server (src/unhcr_demographics.py): the      *)
(* stdio serving loop `run`, the dispatcher `handle_request`, the tool     *)
(* `get_demographics` with its outbound HTTP call, and the SIGINT handler  *)
(* `_shutdown`.                                                            *)
(***************************************************************************)
EXTENDS Integers, Sequences, FiniteSets, TLC

\* Number of input lines the environment delivers before it stops writing.
MaxLines == 2

\* get_demographics, line 57: the accepted range of `year`.
MinYear == 1950
MaxYear == 2025
\* get_demographics, line 55: args.get("limit", 100).
DefaultLimit == 100

(***************************************************************************)
(* JSON values as Python sees them after json.loads.  One record shape for *)
(* every value: t is the Python type, n the number, s the string.          *)
(* "absent" is a key that is not in its dict.                              *)
(***************************************************************************)
Absent == [t |-> "absent", n |-> 0, s |-> ""]
JNull == [t |-> "null", n |-> 0, s |-> ""]
JInt(i) == [t |-> "int", n |-> i, s |-> ""]
JFloat(i) == [t |-> "float", n |-> i, s |-> ""]
JBool(b) == [t |-> "bool", n |-> IF b THEN 1 ELSE 0, s |-> ""]
JStr(x) == [t |-> "str", n |-> 0, s |-> x]

\* dict.get(key): None when the key is absent.
Get(v) == IF v.t = "absent" THEN JNull ELSE v
\* dict.get(key, default).
GetDefault(v, d) == IF v.t = "absent" THEN d ELSE v

\* isinstance(v, int): bool is a subclass of int in Python.
IsInstanceInt(v) == v.t \in {"int", "bool"}

\* Python truthiness of a JSON value (`if coo`).
Truthy(v) ==
    CASE v.t \in {"absent", "null"} -> FALSE
      [] v.t = "str" -> v.s # ""
      [] OTHER -> v.n # 0

Digit == <<"0", "1", "2", "3", "4", "5", "6", "7", "8", "9">>

\* str(i) of a non-negative int.
RECURSIVE NatStr(_)
NatStr(i) == IF i < 10 THEN Digit[i + 1] ELSE NatStr(i \div 10) \o Digit[(i % 10) + 1]

\* str(v), as the f-strings of lines 58, 111 and 114 format a value.
PyStr(v) ==
    CASE v.t \in {"absent", "null"} -> "None"
      [] v.t = "int" -> NatStr(v.n)
      [] v.t = "float" -> NatStr(v.n) \o ".0"
      [] v.t = "bool" -> IF v.n = 1 THEN "True" ELSE "False"
      [] OTHER -> v.s

\* The Python type name in an AttributeError message.
TypeName(t) ==
    CASE t = "null" -> "NoneType"
      [] t = "list" -> "list"
      [] t = "num" -> "int"
      [] OTHER -> t

AttributeErrorText(t, attr) ==
    "'" \o TypeName(t) \o "' object has no attribute '" \o attr \o "'"

\* str.upper() on the country codes the model sends.
Upper(x) ==
    CASE x = "syr" -> "SYR"
      [] x = "afg" -> "AFG"
      [] OTHER -> x

(***************************************************************************)
(* class ErrorCode                                                         *)
(***************************************************************************)
METHOD_NOT_FOUND == "MethodNotFound"
INVALID_ARGUMENTS == "InvalidArguments"
INTERNAL_ERROR == "InternalError"

(***************************************************************************)
(* Requests.  params and arguments are "absent", "obj" (a JSON object) or  *)
(* "null" (JSON null; like a number, a string or a list it has no .get).   *)
(***************************************************************************)
NoArgs == [t |-> "absent", year |-> Absent, coo |-> Absent, coa |-> Absent, limit |-> Absent]
NonObjArgs == [NoArgs EXCEPT !.t = "null"]
Args(year, coo, coa, limit) ==
    [t |-> "obj", year |-> year, coo |-> coo, coa |-> coa, limit |-> limit]
YearArgs(year) == Args(year, Absent, Absent, Absent)

NoParams == [t |-> "absent", name |-> Absent, arguments |-> NoArgs]
NonObjParams == [NoParams EXCEPT !.t = "null"]
Params(name, arguments) == [t |-> "obj", name |-> name, arguments |-> arguments]

Request(id, method, params) == [id |-> id, method |-> method, params |-> params]
NoRequest == Request(Absent, Absent, NoParams)

Tool == JStr("get_demographics")
CallTool(id, arguments) == Request(id, JStr("callTool"), Params(Tool, arguments))

\* The dict requests the environment may send.
Requests ==
    { Request(JInt(1), JStr("listTools"), NoParams),
      Request(Absent, JStr("listTools"), NonObjParams),
      Request(JInt(2), Absent, NoParams),
      Request(JStr("a"), JStr("unknown"), NonObjParams),
      Request(JInt(3), JStr("callTool"), NoParams),
      Request(Absent, JStr("callTool"), Params(Absent, YearArgs(JInt(2020)))),
      Request(JInt(4), JStr("callTool"), Params(JStr("bogus"), YearArgs(JInt(2020)))),
      Request(JInt(5), JStr("callTool"), NonObjParams),
      CallTool(JInt(6), NoArgs),
      CallTool(JInt(7), NonObjArgs),
      CallTool(Absent, YearArgs(Absent)),
      CallTool(JInt(8), YearArgs(JInt(1949))),
      CallTool(JInt(9), YearArgs(JInt(1950))),
      CallTool(Absent, Args(JInt(2025), JStr("syr"), JStr("afg"), JInt(5))),
      CallTool(JNull, YearArgs(JInt(2026))),
      CallTool(JInt(10), YearArgs(JStr("2020"))),
      CallTool(JInt(11), YearArgs(JFloat(2020))),
      CallTool(JInt(12), YearArgs(JBool(TRUE))),
      CallTool(JInt(13), YearArgs(JNull)),
      CallTool(JInt(14), Args(JInt(2020), JInt(5), Absent, Absent)) }

(***************************************************************************)
(* Input lines, after .strip(): "" (a blank line, or end of file), text    *)
(* json.loads rejects, a JSON document that is not an object, a request.   *)
(***************************************************************************)
Line(kind, req) == [kind |-> kind, req |-> req]
EmptyLine == Line("empty", NoRequest)
MalformedLine == Line("malformed", NoRequest)
NonDictLine == Line("nondict", NoRequest)
NoLine == Line("none", NoRequest)
Lines == {EmptyLine, MalformedLine, NonDictLine} \cup {Line("dict", r) : r \in Requests}

(***************************************************************************)
(* Upstream payloads.  A JSON object is a sequence of key/number pairs; a  *)
(* payload value is a list of objects, an object, a number or null.  The   *)
(* top-level payload also says whether it has a "data" key and its value.  *)
(***************************************************************************)
Pair(k, v) == [k |-> k, v |-> v]
EmptyObj == <<>>
ObjX == <<Pair("x", 1)>>

PList(items) == [t |-> "list", items |-> items, fields |-> <<>>]
PObj(fields) == [t |-> "obj", items |-> <<>>, fields |-> fields]
PNum == [t |-> "num", items |-> <<>>, fields |-> <<>>]
PNull == [t |-> "null", items |-> <<>>, fields |-> <<>>]

\* {"data": v, ...fields}
WithData(v, fields) ==
    [t |-> "obj", items |-> <<>>, fields |-> fields, hasData |-> TRUE, data |-> v]
\* A payload without a "data" key.
Bare(v) ==
    [t |-> v.t, items |-> v.items, fields |-> v.fields, hasData |-> FALSE, data |-> PNull]

Payloads ==
    { WithData(PList(<<>>), <<>>),
      WithData(PList(<<ObjX>>), <<>>),
      WithData(PList(<<EmptyObj, ObjX>>), ObjX),
      WithData(PObj(ObjX), <<>>),
      WithData(PObj(EmptyObj), <<>>),
      WithData(PNum, <<>>),
      WithData(PNull, <<>>),
      Bare(PObj(ObjX)),
      Bare(PObj(EmptyObj)),
      Bare(PList(<<ObjX>>)),
      Bare(PList(<<>>)),
      Bare(PNum) }

\* json.dumps(obj, indent=2) of an object nested one level deep in a list.
RECURSIVE DumpsFields(_)
DumpsFields(fields) ==
    IF fields = <<>> THEN ""
    ELSE "    \"" \o Head(fields).k \o "\": " \o NatStr(Head(fields).v)
         \o (IF Tail(fields) = <<>> THEN "" ELSE ",\n" \o DumpsFields(Tail(fields)))

DumpsObj(fields) ==
    IF fields = <<>> THEN "{}" ELSE "{\n" \o DumpsFields(fields) \o "\n  }"

RECURSIVE DumpsItems(_)
DumpsItems(items) ==
    IF items = <<>> THEN ""
    ELSE "  " \o DumpsObj(Head(items))
         \o (IF Tail(items) = <<>> THEN "" ELSE ",\n" \o DumpsItems(Tail(items)))

\* json.dumps(data, indent=2) of a list of objects (line 89).
Dumps(items) ==
    IF items = <<>> THEN "[]" ELSE "[\n" \o DumpsItems(items) \o "\n]"

(***************************************************************************)
(* What requests.get and response.json() can do (lines 61-75): raise       *)
(* Timeout or ConnectionError, or deliver a response with a status and a   *)
(* body that is JSON or is not.                                            *)
(***************************************************************************)
NoPayload == Bare(PNull)
Timeout == [kind |-> "timeout", status |-> 0, json |-> FALSE, payload |-> NoPayload]
ConnectionError == [kind |-> "connection", status |-> 0, json |-> FALSE, payload |-> NoPayload]
Response(status, payload) ==
    [kind |-> "response", status |-> status, json |-> TRUE, payload |-> payload]
NotJson(status) ==
    [kind |-> "response", status |-> status, json |-> FALSE, payload |-> NoPayload]
NoUpstream == [kind |-> "none", status |-> 0, json |-> FALSE, payload |-> NoPayload]

Upstreams ==
    {Timeout, ConnectionError, NotJson(200), NotJson(404), NotJson(304),
     Response(503, WithData(PList(<<>>), <<>>)),
     Response(300, WithData(PList(<<ObjX>>), <<>>))}
    \cup {Response(200, p) : p \in Payloads}

IsClientOrServerError(status) == 400 <= status /\ status < 600

\* response.raise_for_status() (line 72): requests raises HTTPError for a
\* status in 400..599 and returns for every other status.
RaiseForStatus(status) == IsClientOrServerError(status)

\* Whether lines 61-75 raise a requests.RequestException.  requests >= 2.28
\* (setup.py) raises requests.exceptions.JSONDecodeError, a RequestException,
\* from response.json() on a body that is not JSON.
RequestException(u) ==
    \/ u.kind \in {"timeout", "connection"}
    \/ u.kind = "response" /\ RaiseForStatus(u.status)
    \/ u.kind = "response" /\ ~u.json

\* str(e) of that exception.
RequestExceptionText(u) ==
    CASE u.kind = "timeout" -> "Read timed out. (read timeout=10)"
      [] u.kind = "connection" -> "Connection refused"
      [] u.kind = "response" /\ RaiseForStatus(u.status) ->
            NatStr(u.status) \o (IF u.status < 500 THEN " Client Error" ELSE " Server Error")
      [] OTHER -> "Expecting value: line 1 column 1 (char 0)"

(***************************************************************************)
(* Results, responses and raised exceptions.                               *)
(***************************************************************************)
Result(tools, hasContent, text, isError) ==
    [tools |-> tools, hasContent |-> hasContent, text |-> text, isError |-> isError]
NoResult == Result(<<>>, FALSE, "", FALSE)

\* list_tools (lines 32-49): one tool; its schema requires "year".
list_tools ==
    [tools |-> <<[name |-> "get_demographics", required |-> <<"year">>]>>,
     hasContent |-> FALSE, text |-> "", isError |-> FALSE]

\* {"content": [{"type": "text", "text": text}]} (lines 86-91)
Content(text) == Result(<<>>, TRUE, text, FALSE)
\* the same with "isError": True (lines 93-96)
ErrorContent(text) == Result(<<>>, TRUE, text, TRUE)

\* {"id": request_id, "result": result} (line 115)
ResultResponse(request_id, result) ==
    [id |-> request_id, kind |-> "result", code |-> "", message |-> "", result |-> result]
\* {"id": request_id, "error": {"code": code, "message": message}} (lines 117, 119)
ErrorResponse(request_id, code, message) ==
    [id |-> request_id, kind |-> "error", code |-> code, message |-> message,
     result |-> NoResult]
NoResponse == ErrorResponse(Absent, "", "")

NoQuery == [year |-> 0, coo |-> JNull, coa |-> JNull, limit |-> JNull]

\* How a piece of code ends: it returns a result, raises McpError(code,
\* message), raises another Exception with text `message`, or is in the
\* outbound GET with `query`.
Return(result) ==
    [t |-> "return", code |-> "", message |-> "", result |-> result, query |-> NoQuery]
RaiseMcpError(code, message) ==
    [t |-> "McpError", code |-> code, message |-> message, result |-> NoResult,
     query |-> NoQuery]
RaiseException(message) ==
    [t |-> "Exception", code |-> "", message |-> message, result |-> NoResult,
     query |-> NoQuery]
HttpGet(query) ==
    [t |-> "get", code |-> "", message |-> "", result |-> NoResult, query |-> query]

(***************************************************************************)
(* get_demographics (lines 51-98), in two parts: up to the outbound GET,   *)
(* and from what the GET delivers.                                         *)
(***************************************************************************)
\* The mutant of ValidYear: the lower bound compared with <=.
ValidYearExclusive(year) ==
    IsInstanceInt(year) /\ ~(year.n <= MinYear) /\ ~(year.n > MaxYear)

\* line 57, negated: isinstance(year, int) and not year < 1950 and not year > 2025
ValidYear(year) ==
    IsInstanceInt(year) /\ ~(year.n < MinYear) /\ ~(year.n > MaxYear)

\* `x.upper() if x else None` (lines 65-66) raises AttributeError on a
\* truthy value that is not a string.
UpperFails(x) == Truthy(x) /\ x.t # "str"
UpperOrNone(x) == IF Truthy(x) THEN JStr(Upper(x.s)) ELSE JNull

\* lines 52-71
GetDemographicsCall(args) ==
    LET year == Get(args.year)
        coo == Get(args.coo)
        coa == Get(args.coa)
        limit == GetDefault(args.limit, JInt(DefaultLimit))
    IN  IF args.t \notin {"obj"}
        THEN RaiseException(AttributeErrorText(args.t, "get"))
        ELSE IF ~ValidYear(year)
        THEN RaiseMcpError(INVALID_ARGUMENTS, "Invalid year: " \o PyStr(year))
        ELSE IF UpperFails(coo)
        THEN RaiseMcpError(INTERNAL_ERROR,
                 "Failed to fetch demographics: " \o AttributeErrorText(coo.t, "upper"))
        ELSE IF UpperFails(coa)
        THEN RaiseMcpError(INTERNAL_ERROR,
                 "Failed to fetch demographics: " \o AttributeErrorText(coa.t, "upper"))
        ELSE HttpGet([year |-> year.n, coo |-> UpperOrNone(coo),
                      coa |-> UpperOrNone(coa), limit |-> limit])

\* lines 79-91: raw_data.get("data", raw_data) raises AttributeError when
\* raw_data is not a dict; a list is kept, a dict is wrapped in a list, any
\* other value raises ValueError; an empty list gives "No data available".
Reshape(raw) ==
    IF raw.t # "obj"
    THEN RaiseException(AttributeErrorText(raw.t, "get"))
    ELSE LET data == IF raw.hasData THEN raw.data ELSE raw
         IN  CASE data.t = "list" ->
                    Return(Content(IF data.items # <<>> THEN Dumps(data.items)
                                   ELSE "No data available"))
               [] data.t = "obj" -> Return(Content(Dumps(<<data.fields>>)))
               [] OTHER -> RaiseException("Unexpected API response format")

\* The mutant of GetDemographicsReturn: an upstream failure is raised as an
\* InternalError.
GetDemographicsReturnRaises(u) ==
    IF RequestException(u)
    THEN RaiseMcpError(INTERNAL_ERROR,
             "Failed to fetch demographics: " \o RequestExceptionText(u))
    ELSE LET r == Reshape(u.payload)
         IN  IF r.t = "Exception"
             THEN RaiseMcpError(INTERNAL_ERROR, "Failed to fetch demographics: " \o r.message)
             ELSE r

\* lines 72-98, given what the GET delivered
GetDemographicsReturn(u) ==
    IF RequestException(u)
    THEN Return(ErrorContent("UNHCR API error: " \o RequestExceptionText(u)))
    ELSE LET r == Reshape(u.payload)
         IN  IF r.t = "Exception"
             THEN RaiseMcpError(INTERNAL_ERROR, "Failed to fetch demographics: " \o r.message)
             ELSE r

(***************************************************************************)
(* handle_request (lines 100-119)                                          *)
(***************************************************************************)
\* The mutant of RequestId: an absent id and a null id both give 0.
RequestIdOrZero(request) ==
    IF request.id.t \in {"absent", "null"} THEN JInt(0) ELSE request.id

\* line 101: request.get("id", 0)
RequestId(request) == GetDefault(request.id, JInt(0))

\* The mutant of ToolKnown: a request that names no tool gets the only tool.
ToolKnownOrDefault(tool_name) ==
    tool_name = JNull \/ tool_name = JStr("get_demographics")

\* line 110, negated
ToolKnown(tool_name) == tool_name = JStr("get_demographics")

\* lines 116-119: the except clauses
Caught(request_id, r) ==
    IF r.t = "McpError"
    THEN ErrorResponse(request_id, r.code, r.message)
    ELSE ErrorResponse(request_id, INTERNAL_ERROR, r.message)

\* lines 105-114: the outcome of the try block up to the outbound GET
Route(request) ==
    LET method == Get(request.method)
        params == request.params
        \* line 103: request.get("params", {}); line 112: params.get("arguments", {})
        args == IF params.arguments.t = "absent" THEN YearArgs(Absent)
                ELSE params.arguments
    IN  IF method = JStr("listTools") THEN Return(list_tools)
        ELSE IF method = JStr("callTool") THEN
            IF params.t = "null"
            THEN RaiseException(AttributeErrorText(params.t, "get"))
            ELSE IF ~ToolKnown(Get(params.name))
            THEN RaiseMcpError(METHOD_NOT_FOUND, "Unknown tool: " \o PyStr(Get(params.name)))
            ELSE GetDemographicsCall(args)
        ELSE RaiseMcpError(METHOD_NOT_FOUND, "Unknown method: " \o PyStr(method))

\* lines 115-119
Respond(request, r) ==
    IF r.t = "return"
    THEN ResultResponse(RequestId(request), r.result)
    ELSE Caught(RequestId(request), r)

(***************************************************************************)
(* The process: __init__ (lines 23-25), run (lines 121-141) and _shutdown  *)
(* (lines 27-30).                                                          *)
(*   pc       "idle" before run() starts, "read" in sys.stdin.readline(),  *)
(*            "line" with the stripped line in hand (line 126), "http" in  *)
(*            requests.get, "write" with the response built (line 132),    *)
(*            "terminated" when the process has exited                     *)
(*   running  self.running                                                 *)
(*   exitCode the exit codes the process has ended with (none while alive) *)
(*   eof      standard input is at end of file                             *)
(*   nread    lines the environment has delivered                          *)
(*   line, request, response   the locals of run()                         *)
(*   query    the params of the outbound GET                               *)
(*   upstream what the outbound GET of this request delivered              *)
(*   calls    outbound GETs issued for the line in hand                    *)
(*   out      standard output: each response line with the number of the   *)
(*            request line it was written for                              *)
(*   inlog    the non-empty lines read so far                              *)
(*   sigint   a SIGINT has been delivered                                  *)
(***************************************************************************)
VARIABLES pc, running, exitCode, eof, nread, line, request, response, query,
          upstream, calls, out, inlog, sigint

vars == <<pc, running, exitCode, eof, nread, line, request, response, query,
          upstream, calls, out, inlog, sigint>>

\* After UnhcrDemographicsServer() (lines 23-25, 144).
Init ==
    /\ pc = "idle"
    /\ running = TRUE
    /\ exitCode = {}
    /\ eof = FALSE
    /\ nread = 0
    /\ line = NoLine
    /\ request = NoRequest
    /\ response = NoResponse
    /\ query = NoQuery
    /\ upstream = NoUpstream
    /\ calls = 0
    /\ out = <<>>
    /\ inlog = <<>>
    /\ sigint = FALSE

\* print(json.dumps(r), flush=True): one line on standard output.
Written(r) == [n |-> Len(inlog), resp |-> r]

\* line 123: `while self.running`; when it fails run() returns and the
\* script ends with exit code 0.
Continue ==
    /\ pc' = IF running THEN "read" ELSE "terminated"
    /\ exitCode' = IF running THEN exitCode ELSE {0}

\* lines 122, 145: server.run() prints its banner and enters the loop.
Start ==
    /\ pc = "idle"
    /\ Continue
    /\ UNCHANGED <<running, eof, nread, line, request, response, query, upstream,
                   calls, out, inlog, sigint>>

\* line 125: readline() returns a line the environment wrote, stripped.
\* The locals of the previous iteration are dead from here on: each is
\* assigned again before it is read, so they are cleared.
ReadInput ==
    /\ pc = "read"
    /\ ~eof
    /\ nread < MaxLines
    /\ \E l \in Lines :
         /\ line' = l
         /\ inlog' = IF l.kind = "empty" THEN inlog ELSE Append(inlog, l)
    /\ nread' = nread + 1
    /\ pc' = "line"
    /\ request' = NoRequest
    /\ response' = NoResponse
    /\ query' = NoQuery
    /\ upstream' = NoUpstream
    /\ calls' = 0
    /\ UNCHANGED <<running, exitCode, eof, out, sigint>>

\* line 125 at end of file: readline() returns "" at once.
ReadEof ==
    /\ pc = "read"
    /\ eof
    /\ line' = EmptyLine
    /\ pc' = "line"
    /\ request' = NoRequest
    /\ response' = NoResponse
    /\ query' = NoQuery
    /\ upstream' = NoUpstream
    /\ calls' = 0
    /\ UNCHANGED <<running, exitCode, eof, nread, out, inlog, sigint>>

\* The client closes the server's standard input.
CloseStdin ==
    /\ pc # "terminated"
    /\ ~eof
    /\ eof' = TRUE
    /\ UNCHANGED <<pc, running, exitCode, nread, line, request, response, query,
                   upstream, calls, out, inlog, sigint>>

\* lines 126-128: `if not line: ... continue`
SkipEmpty ==
    /\ pc = "line"
    /\ line.kind = "empty"
    /\ Continue
    /\ UNCHANGED <<running, eof, nread, line, request, response, query, upstream,
                   calls, out, inlog, sigint>>

\* The mutant of InvalidJson: the handler answers and ends the loop.
InvalidJsonStops ==
    /\ pc = "line"
    /\ line.kind = "malformed"
    /\ out' = Append(out, Written(ErrorResponse(JInt(0), INVALID_ARGUMENTS, "Invalid JSON")))
    /\ running' = FALSE
    /\ pc' = "terminated"
    /\ exitCode' = {0}
    /\ UNCHANGED <<eof, nread, line, request, response, query, upstream,
                   calls, inlog, sigint>>

\* lines 130, 134-137: json.loads raises JSONDecodeError
InvalidJson ==
    /\ pc = "line"
    /\ line.kind = "malformed"
    /\ out' = Append(out, Written(ErrorResponse(JInt(0), INVALID_ARGUMENTS, "Invalid JSON")))
    /\ Continue
    /\ UNCHANGED <<running, eof, nread, line, request, response, query, upstream,
                   calls, inlog, sigint>>

\* The mutant of RunLoopError: the handler only logs to standard error.
RunLoopErrorSilent ==
    /\ pc = "line"
    /\ line.kind = "nondict"
    /\ Continue
    /\ UNCHANGED <<running, eof, nread, line, request, response, query, upstream,
                   calls, out, inlog, sigint>>

\* lines 130-131, 138-141: the line is JSON but not an object, so line 101
\* raises AttributeError outside handle_request's try block
RunLoopError ==
    /\ pc = "line"
    /\ line.kind = "nondict"
    /\ out' = Append(out, Written(ErrorResponse(JInt(0), INTERNAL_ERROR,
                                                 AttributeErrorText("int", "get"))))
    /\ Continue
    /\ UNCHANGED <<running, eof, nread, line, request, response, query, upstream,
                   calls, inlog, sigint>>

\* lines 130-131: handle_request answers without an outbound call
HandleRequest ==
    /\ pc = "line"
    /\ line.kind = "dict"
    /\ Route(line.req).t # "get"
    /\ request' = line.req
    /\ response' = Respond(line.req, Route(line.req))
    /\ pc' = "write"
    /\ UNCHANGED <<running, exitCode, eof, nread, line, query, upstream, calls, out,
                   inlog, sigint>>

\* lines 130-131, 61-71: handle_request reaches requests.get, which blocks
IssueGet ==
    /\ pc = "line"
    /\ line.kind = "dict"
    /\ Route(line.req).t = "get"
    /\ request' = line.req
    /\ query' = Route(line.req).query
    /\ calls' = calls + 1
    /\ pc' = "http"
    /\ UNCHANGED <<running, exitCode, eof, nread, line, response, upstream, out,
                   inlog, sigint>>

\* The mutant of HttpReturn: a failed GET is issued once more.
HttpReturnRetry ==
    /\ pc = "http"
    /\ \E u \in Upstreams :
         /\ upstream' = u
         /\ IF RequestException(u) /\ calls < 2
            THEN /\ calls' = calls + 1
                 /\ UNCHANGED <<pc, response>>
            ELSE /\ response' = Respond(request, GetDemographicsReturn(u))
                 /\ pc' = "write"
                 /\ UNCHANGED calls
    /\ UNCHANGED <<running, exitCode, eof, nread, line, request, query, out,
                   inlog, sigint>>

\* lines 61-98, 115-119: requests.get returns or raises (within its 10 s
\* timeout); get_demographics and handle_request finish
HttpReturn ==
    /\ pc = "http"
    /\ \E u \in Upstreams :
         /\ upstream' = u
         /\ response' = Respond(request, GetDemographicsReturn(u))
    /\ pc' = "write"
    /\ UNCHANGED <<running, exitCode, eof, nread, line, request, query, calls, out,
                   inlog, sigint>>

\* lines 132-133: the response is printed and flushed
WriteResponse ==
    /\ pc = "write"
    /\ out' = Append(out, Written(response))
    /\ Continue
    /\ UNCHANGED <<running, eof, nread, line, request, response, query, upstream,
                   calls, inlog, sigint>>

\* The mutant of Shutdown: the handler clears the flag and returns.
ShutdownDrains ==
    /\ pc # "terminated"
    /\ running
    /\ sigint' = TRUE
    /\ running' = FALSE
    /\ UNCHANGED <<pc, exitCode, eof, nread, line, request, response, query,
                   upstream, calls, out, inlog>>

\* lines 27-30: SIGINT runs _shutdown; sys.exit(0) raises SystemExit, which
\* no `except Exception` clause catches, so the process exits with code 0
Shutdown ==
    /\ pc # "terminated"
    /\ sigint' = TRUE
    /\ running' = FALSE
    /\ pc' = "terminated"
    /\ exitCode' = {0}
    /\ UNCHANGED <<eof, nread, line, request, response, query, upstream, calls,
                   out, inlog>>

\* The steps the server takes on its own.
ServerStep ==
    \/ Start
    \/ ReadEof
    \/ SkipEmpty
    \/ InvalidJson
    \/ RunLoopError
    \/ HandleRequest
    \/ IssueGet
    \/ HttpReturn
    \/ WriteResponse

Next ==
    \/ ServerStep
    \/ ReadInput
    \/ CloseStdin
    \/ Shutdown

Spec == Init /\ [][Next]_vars

\* The interpreter keeps running the loop, a read at end of file returns at
\* once and requests.get returns within its timeout; nothing obliges the
\* environment to write a line, to close standard input or to send SIGINT.
FairSpec == Spec /\ WF_vars(ServerStep)

(***************************************************************************)
(* The claims.                                                             *)
(***************************************************************************)
\* The line is a callTool request that names the tool get_demographics.
IsToolCall(req) ==
    /\ req.method = JStr("callTool")
    /\ req.params.t = "obj"
    /\ req.params.name = JStr("get_demographics")

\* The year a request supplies: missing when arguments has none.
YearOf(req) == req.params.arguments.year

\* The year is missing, is not a JSON integer, or lies outside 1950..2025.
YearRejected(year) == year.t # "int" \/ year.n < 1950 \/ year.n > 2025

\* C1: at every read of standard input each non-empty line read before has
\* exactly one response on standard output, the i-th response line is the
\* one written for the i-th non-empty line, and at no time is more than one
\* line without its response.
C1_OneResponsePerLine ==
    /\ Len(out) <= Len(inlog)
    /\ Len(inlog) - Len(out) <= 1
    /\ (pc = "read" => Len(out) = Len(inlog))
    /\ \A i \in 1..Len(out) : out[i].n = i

\* C1 witness: two lines, one malformed and one a request answered after an
\* upstream failure, have both been answered and the loop reads again.
C1_Witness ==
    /\ pc = "read"
    /\ Len(inlog) = 2
    /\ Len(out) = 2
    /\ inlog[1].kind = "malformed"
    /\ out[2].resp.result.isError

\* C2: every response handle_request builds, result or error, carries the
\* request's id, or 0 when the request has no id; so does the line written
\* for it, and a JSON line that is no object, having no id, is answered
\* with id 0.
C2_IdCorrelated ==
    /\ pc = "write" =>
          response.id = (IF request.id.t = "absent" THEN JInt(0) ELSE request.id)
    /\ \A i \in 1..Len(out) :
          /\ inlog[i].kind = "dict" =>
                out[i].resp.id = (IF inlog[i].req.id.t = "absent" THEN JInt(0)
                                  ELSE inlog[i].req.id)
          /\ inlog[i].kind = "nondict" => out[i].resp.id = JInt(0)

\* C2 witness: an error response with the request's null id follows a result
\* whose id defaulted to 0.
C2_Witness ==
    /\ pc = "write"
    /\ request.id = JNull
    /\ response.kind = "error"
    /\ response.id = JNull
    /\ Len(out) = 1
    /\ inlog[1].kind = "dict"
    /\ inlog[1].req.id = Absent
    /\ out[1].resp.kind = "result"
    /\ out[1].resp.id = JInt(0)

\* C3 as stated: a callTool request for get_demographics is answered with
\* InvalidArguments exactly when its year is missing, not an integer or
\* outside 1950..2025.
C3_InvalidYearIff ==
    (pc = "write" /\ IsToolCall(request)) =>
       ((response.kind = "error" /\ response.code = "InvalidArguments")
          <=> YearRejected(YearOf(request)))

\* C3 amended: the same when params.arguments is an object or absent, with
\* the message naming the value; when arguments is present and not an object
\* the answer is InternalError.
C3_InvalidYearIffObject ==
    (pc = "write" /\ IsToolCall(request)) =>
       /\ request.params.arguments.t \in {"absent", "obj"} =>
            /\ (response.kind = "error" /\ response.code = "InvalidArguments")
                 <=> YearRejected(YearOf(request))
            /\ YearOf(request) = JInt(1949) => response.message = "Invalid year: 1949"
            /\ YearOf(request) = JInt(2026) => response.message = "Invalid year: 2026"
            /\ YearOf(request) = JStr("2020") => response.message = "Invalid year: 2020"
            /\ YearOf(request) = Absent => response.message = "Invalid year: None"
            /\ YearOf(request) \in {JInt(1950), JInt(2025)} => response.code # "InvalidArguments"
       /\ request.params.arguments.t \notin {"absent", "obj"} =>
            (response.kind = "error" /\ response.code = "InternalError")

\* C3 witness: year 1950 was accepted and year 1949 is now rejected.
C3_Witness ==
    /\ pc = "write"
    /\ IsToolCall(request)
    /\ YearOf(request) = JInt(1949)
    /\ response.code = "InvalidArguments"
    /\ Len(out) = 1
    /\ YearOf(inlog[1].req) = JInt(1950)
    /\ out[1].resp.kind = "result"

\* C4 as stated: MethodNotFound for every method other than listTools and
\* callTool, and for every callTool whose params.name is not
\* get_demographics, absent params and absent name included.
C4_MethodNotFound ==
    (pc = "write"
       /\ \/ request.method \notin {JStr("listTools"), JStr("callTool")}
          \/ request.method = JStr("callTool") /\ ~IsToolCall(request))
    => (response.kind = "error" /\ response.code = "MethodNotFound")

\* C4 amended: the same for a callTool whose params is absent or an object;
\* a callTool whose params is present and not an object gets InternalError.
C4_MethodNotFoundObject ==
    pc = "write" =>
       /\ request.method \notin {JStr("listTools"), JStr("callTool")} =>
            (response.kind = "error" /\ response.code = "MethodNotFound")
       /\ (request.method = JStr("callTool") /\ request.params.t \in {"absent", "obj"}
             /\ request.params.name # JStr("get_demographics")) =>
            (response.kind = "error" /\ response.code = "MethodNotFound")
       /\ (request.method = JStr("callTool") /\ request.params.t \notin {"absent", "obj"}) =>
            (response.kind = "error" /\ response.code = "InternalError")

\* C4 witness: a callTool without a tool name, carrying valid arguments, is
\* answered MethodNotFound after a request without a method was.
C4_Witness ==
    /\ pc = "write"
    /\ request.method = JStr("callTool")
    /\ request.params.t = "obj"
    /\ request.params.name = Absent
    /\ YearOf(request) = JInt(2020)
    /\ response.code = "MethodNotFound"
    /\ Len(out) = 1
    /\ inlog[1].kind = "dict"
    /\ inlog[1].req.method = Absent
    /\ out[1].resp.code = "MethodNotFound"

C6_Value(raw) == IF raw.hasData THEN raw.data ELSE raw

\* C6: a 2xx JSON payload whose value is a sequence gives the pretty-printed
\* sequence ("No data available" when empty), a single object gives the
\* one-element sequence, anything else InternalError.
C6_Reshaped ==
    (pc = "write" /\ upstream.kind = "response" /\ upstream.json
       /\ upstream.status >= 200 /\ upstream.status <= 299)
    => LET v == C6_Value(upstream.payload)
       IN  CASE v.t = "list" ->
                  /\ response.kind = "result"
                  /\ response.result.text =
                        (IF v.items = <<>> THEN "No data available" ELSE Dumps(v.items))
             [] v.t = "obj" ->
                  /\ response.kind = "result"
                  /\ response.result.text = Dumps(<<v.fields>>)
             [] OTHER ->
                  /\ response.kind = "error"
                  /\ response.code = "InternalError"

\* An answer to the line in hand was written and the loop goes on.
C7_Answered(r) ==
    /\ out' = Append(out, [n |-> Len(inlog), resp |-> r])
    /\ pc' = "read"
    /\ running'
    /\ exitCode' = {}

\* C7: whatever the server does next with a malformed line (SIGINT and the
\* closing of standard input aside), it answers it with one
\* {id 0, InvalidArguments} line and the loop reads again; a listTools or a
\* valid get_demographics request on the next line is dispatched as ever.
C7_MalformedThenServing ==
    /\ [][(pc = "line" /\ line.kind = "malformed" /\ ~sigint' /\ eof' = eof)
            => C7_Answered([id |-> JInt(0), kind |-> "error", code |-> "InvalidArguments",
                            message |-> "Invalid JSON", result |-> NoResult])]_vars
    /\ []((pc = "write" /\ Len(inlog) = 2 /\ inlog[1].kind = "malformed") =>
            /\ request = inlog[2].req
            /\ Len(out) = 1
            /\ request.method = JStr("listTools") =>
                  (response.kind = "result" /\ Len(response.result.tools) = 1)
            /\ (IsToolCall(request) /\ YearOf(request) \in {JInt(1950), JInt(2025)}) =>
                  (calls = 1 /\ upstream.kind # "none"))

\* C7 witness: after a malformed line and its error response, a listTools
\* request has been answered with a result.
C7_Witness ==
    /\ pc = "read"
    /\ Len(inlog) = 2
    /\ inlog[1].kind = "malformed"
    /\ inlog[2].kind = "dict"
    /\ inlog[2].req.method = JStr("listTools")
    /\ Len(out) = 2
    /\ out[1].resp.code = "InvalidArguments"
    /\ out[1].resp.id = JInt(0)
    /\ out[2].resp.kind = "result"

\* C8: once standard input is at end of file the serving loop terminates.
C8_EofTerminates == (eof /\ pc # "idle") ~> (pc = "terminated")

\* C9: a SIGINT at any point ends the process in that very step, with exit
\* code 0 and the running flag cleared, without writing anything; and once
\* the process has ended nothing more is written.
C9_InterruptTerminates ==
    [][/\ (sigint' /\ ~sigint) =>
            (pc' = "terminated" /\ exitCode' = {0} /\ ~running' /\ out' = out)
       /\ sigint => (out' = out /\ pc' = "terminated")]_vars

\* C9 witness: SIGINT arrived while the outbound GET was blocking, after a
\* first request had been answered; the second never is.
C9_Witness ==
    /\ sigint
    /\ pc = "terminated"
    /\ exitCode = {0}
    /\ calls = 1
    /\ upstream.kind = "none"
    /\ Len(inlog) = 2
    /\ Len(out) = 1

\* C10: at most one outbound GET is issued for a line, and only for a
\* callTool request for get_demographics whose year is an integer in
\* 1950..2025.
C10_CallOnlyAfterValidation ==
    /\ calls <= 1
    /\ calls = 1 =>
          /\ line.kind = "dict"
          /\ IsToolCall(line.req)
          /\ ~YearRejected(YearOf(line.req))
          /\ query.year = YearOf(line.req).n
    /\ pc = "http" => calls = 1
    /\ upstream.kind # "none" => calls = 1

\* C10 witness: the GET of a valid request failed and the error result is
\* about to be written after that single call.
C10_Witness ==
    /\ pc = "write"
    /\ calls = 1
    /\ upstream.kind = "connection"
    /\ response.result.isError
    /\ YearOf(request) = JInt(2025)
    /\ query.coo = JStr("SYR")

====
